---- MODULE Spec2Model ----
(***************************************************************************)
(* Model of the notifications service of skylight-service.py: the          *)
(* recurring-reminder trigger engine (check_recurring_trigger), the        *)
(* active-notification assembler (get_active_notifications) and the        *)
(* notification store (load/save, add_notification, add_recurring,         *)
(* delete_notification) behind the single-threaded HTTP server.            *)
(*                                                                         *)
(* A Python dict is a function whose DOMAIN is the set of keys present; a  *)
(* naive datetime is the record of its fields at minute resolution; a      *)
(* raised exception is the record [error |-> <exception type>].            *)
(***************************************************************************)
EXTENDS Integers, Sequences, FiniteSets, TLC

VARIABLES
    now,        \* the wall clock: what datetime.now() returns
    recur,      \* the stored recurring entry under evaluation
    triggered,  \* what the last check_recurring_trigger(recur, now) returned or raised
    target,     \* the target_dt that evaluation computed
    idle,       \* half hours since the rule was last in its show window
    file,       \* the contents of notifications.json
    ws_clients, \* the connected WebSocket clients
    ws_pc,      \* each WebSocket client's position in ws_handler
    pc,         \* each HTTP connection's position in its request handler
    request,    \* the request an HTTP connection sent
    loaded,     \* the document the handler got from load_notifications()
    data,       \* the handler's document, as it modified and saved it
    result,     \* what the handler returned to do_POST / do_DELETE, or raised
    expected,   \* the effects of the saved calls, applied one after another
    undo,       \* the last add_notification and the delete of the id it returned
    load_outcome, \* what each handler's open/json.load of the file met
    save_outcome, \* how the last save_notifications(data) went
    notif_data, \* the body the last add_notification was given
    listed,     \* what the last get_active_notifications() returned or raised
    ws_queue,   \* the _broadcast coroutines scheduled on ws_loop, oldest first
    ws_tasks,   \* the _broadcast coroutines that run, with their pending sends
    received,   \* the last message sent to each WebSocket client
    mutations,  \* the number of mutating calls that reached their broadcast
    triggered_again, \* what a second check_recurring_trigger(recur, now) returned
    listed_again     \* what a second get_active_notifications() returned or raised

evalVars == <<recur, triggered, target, idle, triggered_again>>

storeVars == <<file, ws_clients, ws_pc, pc, request, loaded, data, result, expected, undo>>

faultVars == <<load_outcome, save_outcome>>

activeVars == <<notif_data, listed, listed_again>>

pushVars == <<ws_queue, ws_tasks, received, mutations>>

vars == <<now, recur, triggered, target, idle,
          file, ws_clients, ws_pc, pc, request, loaded, data, result, expected, undo,
          load_outcome, save_outcome, notif_data, listed,
          ws_queue, ws_tasks, received, mutations,
          triggered_again, listed_again>>

(***************************************************************************)
(* dict helpers                                                            *)
(***************************************************************************)
\* d.get(k, default)
Get(d, k, default) == IF k \in DOMAIN d THEN d[k] ELSE default

\* {} : the dict without keys
EmptyDict == <<>>

ValueError == [error |-> "ValueError"]

IsError(x) == "error" \in DOMAIN x

(***************************************************************************)
(* datetime: the proleptic Gregorian calendar of Python's datetime module  *)
(***************************************************************************)
Years == 2022..2026

IsLeap(y) == (y % 4 = 0) /\ ((y % 100 # 0) \/ (y % 400 = 0))

DaysInMonth(y, m) ==
    IF m = 2 THEN (IF IsLeap(y) THEN 29 ELSE 28)
    ELSE IF m \in {4, 6, 9, 11} THEN 30 ELSE 31

DaysBeforeYear(y) ==
    LET p == y - 1 IN p * 365 + (p \div 4) - (p \div 100) + (p \div 400)

DaysBeforeMonth(y, m) ==
    <<0, 31, 59, 90, 120, 151, 181, 212, 243, 273, 304, 334>>[m]
        + (IF m > 2 /\ IsLeap(y) THEN 1 ELSE 0)

\* date.toordinal(): 0001-01-01 is day 1
toordinal(dt) == DaysBeforeYear(dt.year) + DaysBeforeMonth(dt.year, dt.month) + dt.day

\* date.isoweekday(): Monday is 1, Sunday is 7
isoweekday(dt) == ((toordinal(dt) + 6) % 7) + 1

\* date.weekday(): Monday is 0, Sunday is 6
weekday(dt) == (toordinal(dt) + 6) % 7

\* date.fromordinal(n), as [year, month, day]
fromordinal(n) ==
    LET y == CHOOSE yy \in Years : DaysBeforeYear(yy) < n /\ n <= DaysBeforeYear(yy + 1)
        r == n - DaysBeforeYear(y)
        m == CHOOSE mm \in 1..12 :
                 DaysBeforeMonth(y, mm) < r /\ r <= DaysBeforeMonth(y, mm) + DaysInMonth(y, mm)
    IN  [year |-> y, month |-> m, day |-> r - DaysBeforeMonth(y, m)]

\* minutes since the start of ordinal day 0: the scale datetime arithmetic
\* and comparison work on
Minutes(dt) == (toordinal(dt) * 24 + dt.hour) * 60 + dt.minute

FromMinutes(t) ==
    LET d == fromordinal(t \div 1440)
    IN  [year |-> d.year, month |-> d.month, day |-> d.day,
         hour |-> (t % 1440) \div 60, minute |-> t % 60]

\* dt + timedelta(days=days), dt - timedelta(hours=hours)
plus_days(dt, days) == FromMinutes(Minutes(dt) + days * 1440)

minus_hours(dt, hours) == FromMinutes(Minutes(dt) - hours * 60)

\* dt.replace(year=y, month=m, day=d, hour=h, minute=0, second=0,
\* microsecond=0): raises ValueError when the fields are no valid date
replace(dt, y, m, d, h) ==
    IF m \in 1..12 /\ d >= 1 /\ d <= DaysInMonth(y, m) /\ h \in 0..23
    THEN [year |-> y, month |-> m, day |-> d, hour |-> h, minute |-> 0]
    ELSE ValueError

\* dt.isoformat(): "YYYY-MM-DDTHH:MM:SS", as the sequence of its numeric fields
isoformat(dt) == <<dt.year, dt.month, dt.day, dt.hour, dt.minute, 0>>

\* a <= b, a < b on datetimes
dt_le(a, b) == Minutes(a) <= Minutes(b)

dt_lt(a, b) == Minutes(a) < Minutes(b)

(***************************************************************************)
(* check_recurring_trigger                                                 *)
(***************************************************************************)
DefaultHour == 8

DefaultShowBefore == 0

show_before(rule) == Get(rule, "show_before_hours", DefaultShowBefore)

target_hour(rule) == Get(rule, "hour", DefaultHour)

\* the days to the rule's weekday without the "Already passed today" step
days_until_same_day(rule, t) == (rule["weekday"] - weekday(t)) % 7

\* the "Already passed today" step taken only after the rule's hour is over
days_until_after_hour(rule, t) ==
    LET d == (rule["weekday"] - weekday(t)) % 7
    IN  IF d = 0 /\ t.hour > target_hour(rule) THEN 7 ELSE d

\* "Find next occurrence of this weekday"
days_until(rule, t) ==
    LET d == (rule["weekday"] - weekday(t)) % 7
    IN  IF d = 0 /\ t.hour >= target_hour(rule) THEN 7 ELSE d

weekly_target_dt(rule, t) ==
    LET base == replace(t, t.year, t.month, t.day, target_hour(rule))
    IN  IF IsError(base) THEN base ELSE plus_days(base, days_until(rule, t))

\* "This month or next?"
monthly_passed(rule, t) ==
    t.day > rule["day_of_month"]
        \/ (t.day = rule["day_of_month"] /\ t.hour >= target_hour(rule))

\* the rollover without the December branch
monthly_target_no_wrap(rule, t) ==
    IF monthly_passed(rule, t)
    THEN replace(t, t.year, t.month + 1, rule["day_of_month"], target_hour(rule))
    ELSE replace(t, t.year, t.month, rule["day_of_month"], target_hour(rule))

monthly_target_dt(rule, t) ==
    IF monthly_passed(rule, t)
    THEN IF t.month = 12
         THEN replace(t, t.year + 1, 1, rule["day_of_month"], target_hour(rule))
         ELSE replace(t, t.year, t.month + 1, rule["day_of_month"], target_hour(rule))
    ELSE replace(t, t.year, t.month, rule["day_of_month"], target_hour(rule))

\* a test of the rule's keys that looks for 'day_of_month' first
rule_kind_monthly_first(rule) ==
    IF "day_of_month" \in DOMAIN rule THEN "monthly"
    ELSE IF "weekday" \in DOMAIN rule THEN "weekly"
    ELSE "none"

\* the branch taken on the rule's keys: 'weekday' is tested first
rule_kind(rule) ==
    IF "weekday" \in DOMAIN rule THEN "weekly"
    ELSE IF "day_of_month" \in DOMAIN rule THEN "monthly"
    ELSE "none"

target_dt(rule, t) ==
    IF rule_kind(rule) = "weekly" THEN weekly_target_dt(rule, t)
    ELSE monthly_target_dt(rule, t)

\* "Check if we're in the show window": show_from <= now < target_dt
in_show_window(rule, t, tgt) ==
    dt_le(minus_hours(tgt, show_before(rule)), t) /\ dt_lt(t, tgt)

None == [none |-> TRUE]

triggered_reminder(rec, tgt) ==
    [id |-> rec["id"],
     title |-> Get(rec, "title", "Reminder"),
     message |-> Get(rec, "message", ""),
     priority |-> Get(rec, "priority", "normal"),
     icon |-> Get(rec, "icon", "alert"),
     recurring |-> TRUE,
     target_time |-> isoformat(tgt)]

check_recurring_trigger(rec, t) ==
    LET rule == Get(rec, "rule", EmptyDict)
    IN  IF rule_kind(rule) = "none" THEN None
        ELSE LET tgt == target_dt(rule, t)
             IN  IF IsError(tgt) THEN tgt
                 ELSE IF in_show_window(rule, t, tgt)
                      THEN triggered_reminder(rec, tgt)
                      ELSE None

IsTriggered(r) == "target_time" \in DOMAIN r

\* an evaluator that strikes the rule of the reminder it returns
recur_struck_by_check(rec, t) ==
    IF IsTriggered(check_recurring_trigger(rec, t))
    THEN [rec EXCEPT !["rule"] = EmptyDict]
    ELSE rec

\* the entry the caller holds after check_recurring_trigger(rec, t): recur and
\* rule are only read (recur.get, rule.get, recur['id']), nothing is assigned
recur_after_check(rec, t) == rec

(***************************************************************************)
(* The notification store                                                  *)
(***************************************************************************)
\* notifications.json does not exist
Missing == [missing |-> TRUE]

\* notifications.json holds no parsable JSON: it was truncated by open(.., 'w')
\* and the dump that followed did not complete
Corrupt == [corrupt |-> TRUE]

EmptyDocument == [notifications |-> <<>>, recurring |-> <<>>]

\* json.load of the file; any failure gives the empty two-collection document
load_notifications(f) == IF f \in {Missing, Corrupt} THEN EmptyDocument ELSE f

\* what open / json.load met: the except branch is taken unless "document"
load_outcome_of(f) ==
    IF f = Missing THEN "missing" ELSE IF f = Corrupt THEN "corrupt" ELSE "document"

\* the ways save_notifications(data) can go: the dump completes; open() raises
\* and the file is left as it was; open() truncates the file and the dump
\* raises. The except branch prints the error and the call returns.
SaveOutcomes == {"written", "open_failed", "write_failed"}

\* the file after save_notifications(doc) went as outcome says
save_notifications(f, doc, outcome) ==
    IF outcome = "written" THEN doc
    ELSE IF outcome = "open_failed" THEN f
    ELSE Corrupt

\* datetime.fromisoformat(s): the datetime a well-formed ISO string denotes,
\* ValueError for any other string (a string is the sequence of its fields)
fromisoformat(s) ==
    IF /\ Len(s) = 6
       /\ s[2] \in 1..12 /\ s[3] >= 1 /\ s[3] <= DaysInMonth(s[1], s[2])
       /\ s[4] \in 0..23 /\ s[5] \in 0..59 /\ s[6] \in 0..59
    THEN [year |-> s[1], month |-> s[2], day |-> s[3], hour |-> s[4], minute |-> s[5]]
    ELSE ValueError

\* the truth value of notif.get('expires'): None and "" are false
has_expires(notif) == "expires" \in DOMAIN notif /\ notif["expires"] # <<>>

\* an expiry test that also drops the notification whose expires is now
expiry_check_inclusive(notif, t) ==
    IF ~has_expires(notif) THEN "keep"
    ELSE LET exp_dt == fromisoformat(notif["expires"])
         IN  IF IsError(exp_dt) THEN "raise"
             ELSE IF dt_le(exp_dt, t) THEN "skip" ELSE "keep"

\* an expiry test that never drops a notification
expiry_check_never(notif, t) ==
    IF ~has_expires(notif) THEN "keep"
    ELSE IF IsError(fromisoformat(notif["expires"])) THEN "raise" ELSE "keep"

\* the expiry test of one stored notification: "keep", "skip" or "raise"
expiry_check(notif, t) ==
    IF ~has_expires(notif) THEN "keep"
    ELSE LET exp_dt == fromisoformat(notif["expires"])
         IN  IF IsError(exp_dt) THEN "raise"
             ELSE IF dt_lt(exp_dt, t) THEN "skip" ELSE "keep"

\* priority_order.get(x.get('priority', 'normal'), 1)
priority_rank(x) ==
    LET p == Get(x, "priority", "normal")
    IN  IF p = "urgent" THEN 0 ELSE IF p = "info" THEN 2 ELSE 1

RECURSIVE Reverse(_)
Reverse(seq) == IF seq = <<>> THEN <<>> ELSE Reverse(Tail(seq)) \o <<Head(seq)>>

\* a sort by rank that is not stable: each rank's entries come out reversed
sort_unstable(active) ==
    Reverse(SelectSeq(active, LAMBDA x : priority_rank(x) = 0))
        \o Reverse(SelectSeq(active, LAMBDA x : priority_rank(x) = 1))
        \o Reverse(SelectSeq(active, LAMBDA x : priority_rank(x) = 2))

\* list.sort(key=...): stable, so each rank keeps its entries in order
sort_by_priority(active) ==
    SelectSeq(active, LAMBDA x : priority_rank(x) = 0)
        \o SelectSeq(active, LAMBDA x : priority_rank(x) = 1)
        \o SelectSeq(active, LAMBDA x : priority_rank(x) = 2)

\* the results of check_recurring_trigger over the rules, in rule order
RECURSIVE triggered_of(_, _)
triggered_of(recurring, t) ==
    IF recurring = <<>> THEN <<>>
    ELSE LET r == check_recurring_trigger(Head(recurring), t)
         IN  (IF IsTriggered(r) THEN <<r>> ELSE <<>>) \o triggered_of(Tail(recurring), t)

\* whether get_active_notifications() raises on the document doc at t: an
\* unparsable expires, or a rule whose evaluation raises
get_active_raises(doc, t) ==
    \/ \E i \in 1..Len(doc["notifications"]) : expiry_check(doc["notifications"][i], t) = "raise"
    \/ \E i \in 1..Len(doc["recurring"]) : IsError(check_recurring_trigger(doc["recurring"][i], t))

\* get_active_notifications() on the document doc at the instant t: the
\* sorted active list as [value |-> list], or the exception raised
get_active_notifications(doc, t) ==
    IF get_active_raises(doc, t) THEN ValueError
    ELSE [value |-> sort_by_priority(
                        SelectSeq(doc["notifications"], LAMBDA n : expiry_check(n, t) = "keep")
                            \o triggered_of(doc["recurring"], t))]

\* the ids a document holds, in either collection
ids_of(doc) ==
    {doc["notifications"][i]["id"] : i \in 1..Len(doc["notifications"])}
        \cup {doc["recurring"][i]["id"] : i \in 1..Len(doc["recurring"])}

\* str(uuid.uuid4())[:8]: the tokens it can return for a document; a token
\* is taken to differ from every id the document holds
UuidPool == {"g1", "g2"}

uuid_tokens(doc) == UuidPool \ ids_of(doc)

\* the notif dict add_notification builds from the request body, at t
new_notification(body, id, t) ==
    LET base == [id |-> id,
                 title |-> Get(body, "title", "Notification"),
                 message |-> Get(body, "message", ""),
                 priority |-> Get(body, "priority", "normal"),
                 icon |-> Get(body, "icon", "alert"),
                 created |-> isoformat(t)]
    IN  IF "expires_hours" \in DOMAIN body /\ body["expires_hours"] # 0
        THEN base @@ [expires |-> isoformat(FromMinutes(Minutes(t) + body["expires_hours"] * 60))]
        ELSE IF "expires" \in DOMAIN body /\ body["expires"] # <<>>
        THEN base @@ [expires |-> body["expires"]]
        ELSE base

\* the recur dict add_recurring builds from the request body
new_recurring(body, id) ==
    [id |-> id,
     title |-> Get(body, "title", "Reminder"),
     message |-> Get(body, "message", ""),
     priority |-> Get(body, "priority", "normal"),
     icon |-> Get(body, "icon", "alert"),
     rule |-> Get(body, "rule", EmptyDict)]

\* an add that puts the new notification in front of the stored ones
insert_notification(doc, notif) ==
    [doc EXCEPT !["notifications"] = <<notif>> \o @]

\* an add that stores the new rule in place of the stored ones
replace_recurring(doc, rec) ==
    [doc EXCEPT !["recurring"] = <<rec>>]

\* data['notifications'].append(notif) / data['recurring'].append(recur)
append_notification(doc, notif) ==
    [doc EXCEPT !["notifications"] = Append(@, notif)]

append_recurring(doc, rec) ==
    [doc EXCEPT !["recurring"] = Append(@, rec)]

\* a delete that stops at the first collection holding the id
remove_first_collection(doc, id) ==
    IF \E i \in 1..Len(doc["notifications"]) : doc["notifications"][i]["id"] = id
    THEN [doc EXCEPT !["notifications"] = SelectSeq(@, LAMBDA n : n["id"] # id)]
    ELSE [doc EXCEPT !["recurring"] = SelectSeq(@, LAMBDA r : r["id"] # id)]

\* both list comprehensions of delete_notification
remove_id(doc, id) ==
    [notifications |-> SelectSeq(doc["notifications"], LAMBDA n : n["id"] # id),
     recurring |-> SelectSeq(doc["recurring"], LAMBDA r : r["id"] # id)]

(***************************************************************************)
(* The trigger engine against a running wall clock                         *)
(***************************************************************************)
\* the first instant of the clock: Monday 2023-12-25 00:00
ClockStart == [year |-> 2023, month |-> 12, day |-> 25, hour |-> 0, minute |-> 0]

MaxTicks == 3600

Elapsed(t) == (Minutes(t) - Minutes(ClockStart)) \div 30

WeeklyRules ==
    {[weekday |-> 0, hour |-> 8, show_before_hours |-> 2],
     [weekday |-> 0],
     [weekday |-> 0, hour |-> 8, show_before_hours |-> 1500],
     [weekday |-> 3, hour |-> 0, show_before_hours |-> 2],
     [weekday |-> 6, hour |-> 23, show_before_hours |-> 30],
     [weekday |-> 2, show_before_hours |-> 2],
     [weekday |-> 5, hour |-> 12],
     [weekday |-> 1, hour |-> 23, show_before_hours |-> 2],
     [weekday |-> 4, hour |-> 0, show_before_hours |-> 24]}

MonthlyRules ==
    {[day_of_month |-> 1, hour |-> 8, show_before_hours |-> 2],
     [day_of_month |-> 1],
     [day_of_month |-> 1, hour |-> 0, show_before_hours |-> 30],
     [day_of_month |-> 1, hour |-> 23, show_before_hours |-> 1500],
     [day_of_month |-> 15, show_before_hours |-> 2],
     [day_of_month |-> 28, hour |-> 8, show_before_hours |-> 2],
     [day_of_month |-> 31, hour |-> 8, show_before_hours |-> 2],
     [day_of_month |-> 31, hour |-> 8, show_before_hours |-> 1500],
     [day_of_month |-> 30, hour |-> 0]}

EvalRules == WeeklyRules \cup MonthlyRules

\* a stored recurring entry, as add_recurring builds it
stored_recurring(id, rule) == new_recurring([rule |-> rule], id)

NotEvaluated == [pending |-> TRUE]

(***************************************************************************)
(* The HTTP server, its request handlers and the WebSocket handler         *)
(***************************************************************************)
\* the HTTP connections that send requests, and the WebSocket clients
Conns == {"c1", "c2"}

WsClients == {"w1"}

\* the wall clock of the store's runs: Monday 2024-04-29 07:00
StoreNow == [year |-> 2024, month |-> 4, day |-> 29, hour |-> 7, minute |-> 0]

\* requests that add to a collection are sent while it is shorter than this
MaxEntries == 2

\* the request bodies and ids the connections send
NotificationBodies == {[id |-> "a", priority |-> "urgent"], EmptyDict}

RecurringBodies ==
    {[id |-> "a", rule |-> [weekday |-> 0, hour |-> 8, show_before_hours |-> 2]],
     [rule |-> [day_of_month |-> 31]]}

DeleteIds == {"a", "g1", "zz"}

Requests ==
    {[op |-> "add_notification", body |-> b] : b \in NotificationBodies}
        \cup {[op |-> "add_recurring", body |-> b] : b \in RecurringBodies}
        \cup {[op |-> "delete_notification", id |-> i] : i \in DeleteIds}
        \cup {[op |-> "list"]}

Mutating(r) == r["op"] \in {"add_notification", "add_recurring", "delete_notification"}

NoRequest == [op |-> "none"]

NoDocument == [nothing |-> TRUE]

NoResult == [pending |-> TRUE]

NoUndo == [stage |-> "none"]

\* the service as it starts, with the WebSocket clients that may connect
InitServer(clients) ==
    /\ file = Missing
    /\ ws_clients = {}
    /\ ws_pc = [w \in clients |-> "closed"]
    /\ pc = [c \in Conns |-> "idle"]
    /\ request = [c \in Conns |-> NoRequest]
    /\ loaded = [c \in Conns |-> NoDocument]
    /\ data = [c \in Conns |-> NoDocument]
    /\ result = [c \in Conns |-> NoResult]
    /\ expected = EmptyDocument
    /\ undo = NoUndo
    /\ load_outcome = [c \in Conns |-> "none"]
    /\ save_outcome = "none"
    /\ notif_data = NoRequest
    /\ listed = NotEvaluated
    /\ listed_again = NotEvaluated
    /\ ws_queue = <<>>
    /\ ws_tasks = <<>>
    /\ received = [w \in clients |-> None]
    /\ mutations = 0

InitStore == InitServer(WsClients)

InitEval ==
    /\ now = ClockStart
    /\ recur \in {stored_recurring("r1", r) : r \in EvalRules}
    /\ triggered = NotEvaluated
    /\ triggered_again = NotEvaluated
    /\ target = NotEvaluated
    /\ idle = 0
    /\ InitStore

\* the wall clock advances by half an hour
Tick ==
    /\ Elapsed(now) < MaxTicks
    /\ now' = FromMinutes(Minutes(now) + 30)
    /\ triggered' = NotEvaluated
    /\ triggered_again' = NotEvaluated
    /\ target' = NotEvaluated
    /\ LET r == check_recurring_trigger(recur, now')
       IN  idle' = IF IsTriggered(r) THEN 0 ELSE idle + 1
    /\ UNCHANGED recur
    /\ UNCHANGED <<storeVars, faultVars, activeVars, pushVars>>

\* one evaluation of the stored rule at the current instant
Evaluate ==
    /\ triggered = NotEvaluated
    /\ triggered' = check_recurring_trigger(recur, now)
    /\ target' = LET rule == Get(recur, "rule", EmptyDict)
                 IN  IF rule_kind(rule) = "none" THEN None ELSE target_dt(rule, now)
    /\ UNCHANGED <<now, recur, idle, triggered_again>>
    /\ UNCHANGED <<storeVars, faultVars, activeVars, pushVars>>

NextEval == Tick \/ Evaluate

SpecEval == InitEval /\ [][NextEval]_vars

\* the rules of the runs that look at the rule's keys: with neither
\* 'weekday' nor 'day_of_month', and with both
KeylessRules ==
    {EmptyDict,
     [hour |-> 8, show_before_hours |-> 1500],
     [show_before_hours |-> 2]}

BothKeyRules ==
    {[weekday |-> 0, day_of_month |-> 15, hour |-> 8, show_before_hours |-> 2],
     [weekday |-> 2, day_of_month |-> 31, hour |-> 12, show_before_hours |-> 24]}

\* the entries add_recurring stores for these rules; without a rule in the
\* body it stores the empty rule
KeyEntries ==
    {new_recurring(EmptyDict, "r1")}
        \cup {stored_recurring("r1", r) : r \in KeylessRules \cup BothKeyRules}

InitKeys ==
    /\ now = ClockStart
    /\ recur \in KeyEntries
    /\ triggered = NotEvaluated
    /\ triggered_again = NotEvaluated
    /\ target = NotEvaluated
    /\ idle = 0
    /\ InitStore

SpecKeys == InitKeys /\ [][NextEval]_vars

\* the wall clock of the store's runs; no rule is under evaluation
InitClock ==
    /\ now = StoreNow
    /\ recur = stored_recurring("r1", EmptyDict)
    /\ triggered = NotEvaluated
    /\ triggered_again = NotEvaluated
    /\ target = NotEvaluated
    /\ idle = 0

Init ==
    /\ InitClock
    /\ InitStore

\* a server that starts a thread per request: it never waits
threading_server == TRUE

\* HTTPServer.serve_forever handles one request at a time: the next one is
\* taken up when no request is being handled
server_idle == \A c \in Conns : pc[c] \in {"idle", "waiting"}

\* a client sends a request; it waits for the server to take it up
SendRequest(c) ==
    /\ pc[c] = "idle"
    /\ pc' = [pc EXCEPT ![c] = "waiting"]
    /\ UNCHANGED <<now, evalVars, file, ws_clients, ws_pc, request, loaded, data,
                   result, expected, undo>>
    /\ UNCHANGED <<faultVars, activeVars, pushVars>>

\* do_GET / do_POST / do_DELETE reads the request and the handler loads the
\* document
Begin(c, r) ==
    /\ pc[c] = "waiting"
    /\ server_idle
    /\ r["op"] = "add_notification"
           => Len(load_notifications(file)["notifications"]) < MaxEntries
    /\ r["op"] = "add_recurring"
           => Len(load_notifications(file)["recurring"]) < MaxEntries
    /\ request' = [request EXCEPT ![c] = r]
    /\ loaded' = [loaded EXCEPT ![c] = load_notifications(file)]
    /\ data' = [data EXCEPT ![c] = load_notifications(file)]
    /\ load_outcome' = [load_outcome EXCEPT ![c] = load_outcome_of(file)]
    /\ pc' = [pc EXCEPT ![c] = "loaded"]
    /\ UNCHANGED <<now, evalVars, file, ws_clients, ws_pc, result, expected, undo>>
    /\ UNCHANGED <<save_outcome, activeVars, pushVars>>

BeginRequest(c) == \E r \in Requests : Begin(c, r)

\* the entries the handler of request r may build for the document doc
new_entries(r, doc) ==
    LET id_choices == IF "id" \in DOMAIN r["body"] THEN {r["body"]["id"]}
                      ELSE uuid_tokens(doc)
    IN  IF r["op"] = "add_notification"
        THEN {new_notification(r["body"], i, now) : i \in id_choices}
        ELSE {new_recurring(r["body"], i) : i \in id_choices}

\* what request r, building entry e, makes of the document doc
modified(r, e, doc) ==
    IF r["op"] = "add_notification" THEN append_notification(doc, e)
    ELSE IF r["op"] = "add_recurring" THEN append_recurring(doc, e)
    ELSE remove_id(doc, r["id"])

\* the handler modifies its document and calls save_notifications(data),
\* which goes as outcome says
Modify(c, outcome) ==
    /\ pc[c] = "loaded"
    /\ LET r == request[c]
       IN  \/ /\ r["op"] = "add_notification"
              /\ \E e \in new_entries(r, data[c]) :
                     /\ data' = [data EXCEPT ![c] = modified(r, e, data[c])]
                     /\ file' = save_notifications(file, modified(r, e, data[c]), outcome)
                     /\ expected' = modified(r, e, expected)
                     /\ undo' = [stage |-> "added", id |-> e["id"],
                                 pre |-> data[c]["notifications"]]
           \/ /\ r["op"] = "add_recurring"
              /\ \E e \in new_entries(r, data[c]) :
                     /\ data' = [data EXCEPT ![c] = modified(r, e, data[c])]
                     /\ file' = save_notifications(file, modified(r, e, data[c]), outcome)
                     /\ expected' = modified(r, e, expected)
                     /\ undo' = NoUndo
           \/ /\ r["op"] = "delete_notification"
              /\ data' = [data EXCEPT ![c] = modified(r, NoDocument, data[c])]
              /\ file' = save_notifications(file, modified(r, NoDocument, data[c]), outcome)
              /\ expected' = modified(r, NoDocument, expected)
              /\ undo' = IF undo["stage"] = "returned" /\ undo["id"] = r["id"]
                         THEN [undo EXCEPT !["stage"] = "deleted"]
                         ELSE NoUndo
    /\ save_outcome' = outcome
    /\ pc' = [pc EXCEPT ![c] = "saved"]
    /\ UNCHANGED <<now, evalVars, ws_clients, ws_pc, request, loaded, result>>
    /\ UNCHANGED <<load_outcome, activeVars, pushVars>>

\* the handler modifies its document and save_notifications writes it
ModifyAndSave(c) == Modify(c, "written")

\* do_GET /api/notifications: the handler is get_active_notifications()
ListActive(c) ==
    /\ pc[c] = "loaded"
    /\ request[c]["op"] = "list"
    /\ result' = [result EXCEPT ![c] = get_active_notifications(loaded[c], now)]
    /\ pc' = [pc EXCEPT ![c] = "done"]
    /\ UNCHANGED <<now, evalVars, file, ws_clients, ws_pc, request, loaded, data,
                   expected, undo>>
    /\ UNCHANGED <<faultVars, activeVars, pushVars>>

\* the value the handler returns: the entry it appended, or {deleted: id}
return_value(r, doc) ==
    IF r["op"] = "add_notification" THEN doc["notifications"][Len(doc["notifications"])]
    ELSE IF r["op"] = "add_recurring" THEN doc["recurring"][Len(doc["recurring"])]
    ELSE [deleted |-> r["id"]]

\* broadcast_notifications(): nothing without clients; otherwise it builds
\* the payload from get_active_notifications(), whose exception it lets
\* through, and hands the message to the WebSocket loop
broadcast_notifications ==
    IF ws_clients = {} THEN None
    ELSE LET active == get_active_notifications(load_notifications(file), now)
         IN  IF IsError(active) THEN active ELSE None

\* the handler's call of broadcast_notifications() ends and the handler
\* returns its result to do_POST / do_DELETE, or the exception goes up
Returns(c) ==
    /\ pc[c] = "saved"
    /\ result' = [result EXCEPT ![c] =
                     IF IsError(broadcast_notifications) THEN broadcast_notifications
                     ELSE return_value(request[c], data[c])]
    /\ undo' = IF undo["stage"] # "added" THEN undo
               ELSE IF IsError(broadcast_notifications) THEN NoUndo
               ELSE [undo EXCEPT !["stage"] = "returned"]
    /\ pc' = [pc EXCEPT ![c] = "done"]
    /\ UNCHANGED <<now, evalVars, file, ws_clients, ws_pc, request, loaded, data, expected>>
    /\ UNCHANGED <<faultVars, activeVars>>

\* the handler broadcasts and returns; what becomes of the coroutine it hands
\* to the WebSocket loop is followed by ScheduleAndReturn
BroadcastAndReturn(c) ==
    /\ Returns(c)
    /\ UNCHANGED pushVars

\* do_POST / do_DELETE sends the result (an exception ends the request
\* without a response) and the request is finished
CloseRequest(c) ==
    /\ pc[c] = "done"
    /\ pc' = [pc EXCEPT ![c] = "idle"]
    /\ request' = [request EXCEPT ![c] = NoRequest]
    /\ loaded' = [loaded EXCEPT ![c] = NoDocument]
    /\ data' = [data EXCEPT ![c] = NoDocument]
    /\ result' = [result EXCEPT ![c] = NoResult]
    /\ load_outcome' = [load_outcome EXCEPT ![c] = "none"]
    /\ UNCHANGED <<now, evalVars, file, ws_clients, ws_pc, expected, undo>>
    /\ UNCHANGED <<save_outcome, activeVars, pushVars>>

\* ws_handler: ws_clients.add(websocket)
WsConnect(w) ==
    /\ ws_pc[w] = "closed"
    /\ ws_clients' = ws_clients \cup {w}
    /\ ws_pc' = [ws_pc EXCEPT ![w] = "connected"]
    /\ UNCHANGED <<now, evalVars, file, pc, request, loaded, data, result, expected, undo>>
    /\ UNCHANGED <<faultVars, activeVars, pushVars>>

\* ws_handler: the current state is sent on connect; an exception of
\* get_active_notifications() ends the handler, whose finally clause
\* discards the client
WsSendState(w) ==
    /\ ws_pc[w] = "connected"
    /\ IF IsError(get_active_notifications(load_notifications(file), now))
       THEN /\ ws_clients' = ws_clients \ {w}
            /\ ws_pc' = [ws_pc EXCEPT ![w] = "closed"]
       ELSE /\ ws_pc' = [ws_pc EXCEPT ![w] = "open"]
            /\ UNCHANGED ws_clients
    /\ UNCHANGED <<now, evalVars, file, pc, request, loaded, data, result, expected, undo>>
    /\ UNCHANGED <<faultVars, activeVars, pushVars>>

\* ws_handler: the connection closes; finally: ws_clients.discard(websocket)
WsDisconnect(w) ==
    /\ ws_pc[w] = "open"
    /\ ws_clients' = ws_clients \ {w}
    /\ ws_pc' = [ws_pc EXCEPT ![w] = "closed"]
    /\ UNCHANGED <<now, evalVars, file, pc, request, loaded, data, result, expected, undo>>
    /\ UNCHANGED <<faultVars, activeVars, pushVars>>

Next ==
    \/ \E c \in Conns : SendRequest(c)
    \/ \E c \in Conns : BeginRequest(c)
    \/ \E c \in Conns : ModifyAndSave(c)
    \/ \E c \in Conns : ListActive(c)
    \/ \E c \in Conns : BroadcastAndReturn(c)
    \/ \E c \in Conns : CloseRequest(c)
    \/ \E w \in WsClients : WsConnect(w)
    \/ \E w \in WsClients : WsSendState(w)
    \/ \E w \in WsClients : WsDisconnect(w)

Spec == Init /\ [][Next]_vars

(***************************************************************************)
(* The server while the wall clock moves on                                *)
(***************************************************************************)
\* the clock of these runs moves on by this many hours: the Monday 08:00
\* rule is in its window at StoreNow and past it an hour later
MaxHours == 1

\* an hour passes
Advance ==
    /\ Minutes(now) < Minutes(StoreNow) + MaxHours * 60
    /\ now' = FromMinutes(Minutes(now) + 60)
    /\ UNCHANGED <<evalVars, storeVars, faultVars, activeVars, pushVars>>

NextClock == Next \/ Advance

SpecClock == Init /\ [][NextClock]_vars

(***************************************************************************)
(* The WebSocket loop: the broadcasts the handlers schedule                *)
(***************************************************************************)
\* the WebSocket clients and the HTTP connection of the broadcast runs
PushClients == {"w1", "w2"}

PushConns == {"c1"}

\* mutating calls are made while fewer than this were made
MaxMutations == 2

PushRequests ==
    {[op |-> "add_notification", body |-> [id |-> "a", priority |-> "urgent"]],
     [op |-> "add_recurring", body |-> [rule |-> [day_of_month |-> 31]]],
     [op |-> "delete_notification", id |-> "a"]}

InitPush ==
    /\ InitClock
    /\ InitServer(PushClients)

BeginPush(c) ==
    /\ mutations < MaxMutations
    /\ \E r \in PushRequests : Begin(c, r)

\* json.dumps({'type': 'notifications', 'data': get_active_notifications()})
broadcast_message ==
    [type |-> "notifications",
     data |-> get_active_notifications(load_notifications(file), now)["value"]]

\* asyncio.run_coroutine_threadsafe(_broadcast(message), ws_loop): the
\* coroutine joins the loop's queue, behind those scheduled before it
run_coroutine_threadsafe(queue, coro) == Append(queue, coro)

\* the handler broadcasts and returns: without clients, or when building the
\* message raised, nothing is scheduled
ScheduleAndReturn(c) ==
    /\ Returns(c)
    /\ mutations' = mutations + 1
    /\ ws_queue' = IF ws_clients = {} \/ IsError(broadcast_notifications)
                   THEN ws_queue
                   ELSE run_coroutine_threadsafe(
                            ws_queue,
                            [message |-> broadcast_message, mutation |-> mutations + 1])
    /\ UNCHANGED <<ws_tasks, received>>

\* the loop starts the oldest scheduled _broadcast(message): it calls
\* client.send(message) for every client in ws_clients and awaits them all
StartBroadcast ==
    /\ ws_queue # <<>>
    /\ ws_queue' = Tail(ws_queue)
    /\ ws_tasks' = Append(ws_tasks,
                          [message |-> Head(ws_queue)["message"],
                           mutation |-> Head(ws_queue)["mutation"],
                           clients |-> ws_clients,
                           pending |-> ws_clients,
                           sent |-> {},
                           failed |-> {}])
    /\ UNCHANGED <<now, evalVars, storeVars, faultVars, activeVars, received, mutations>>

\* a loop that awaits the sends one by one: the exception of a failed send
\* ends the coroutine and the sends behind it are never made
abort_on_failure(pending, w) == {}

\* asyncio.gather(..., return_exceptions=True): the exception of a failed
\* send is collected as a result and the other sends go on
gather_return_exceptions(pending, w) == pending \ {w}

\* the sends of one connection are made in the order the loop started them
next_send(i, w) ==
    /\ i \in 1..Len(ws_tasks)
    /\ w \in ws_tasks[i]["pending"]
    /\ \A j \in 1..(i - 1) : w \notin ws_tasks[j]["pending"]

\* client.send(message) of the i-th broadcast writes the message to w
SendOk(i, w) ==
    /\ next_send(i, w)
    /\ ws_pc[w] # "closed"
    /\ ws_tasks' = [ws_tasks EXCEPT ![i]["pending"] = @ \ {w},
                                    ![i]["sent"] = @ \cup {w}]
    /\ received' = [received EXCEPT ![w] =
                       [message |-> ws_tasks[i]["message"],
                        mutation |-> ws_tasks[i]["mutation"]]]
    /\ UNCHANGED <<now, evalVars, storeVars, faultVars, activeVars, ws_queue, mutations>>

\* client.send(message) of the i-th broadcast raises: the connection of w
\* is closed or broken
SendFail(i, w) ==
    /\ next_send(i, w)
    /\ ws_tasks' = [ws_tasks EXCEPT
                       ![i]["pending"] = gather_return_exceptions(@, w),
                       ![i]["failed"] = @ \cup {w}]
    /\ UNCHANGED <<now, evalVars, storeVars, faultVars, activeVars, ws_queue, received,
                   mutations>>

Send(w) == \E i \in 1..Len(ws_tasks) : SendOk(i, w) \/ SendFail(i, w)

\* the sequence seq without its i-th element
RemoveAt(seq, i) == SubSeq(seq, 1, i - 1) \o SubSeq(seq, i + 1, Len(seq))

\* every send of the i-th broadcast has ended: gather returns and the
\* coroutine is done
FinishBroadcast(i) ==
    /\ i \in 1..Len(ws_tasks)
    /\ ws_tasks[i]["pending"] = {}
    /\ ws_tasks' = RemoveAt(ws_tasks, i)
    /\ UNCHANGED <<now, evalVars, storeVars, faultVars, activeVars, ws_queue, received,
                   mutations>>

NextPush ==
    \/ \E c \in PushConns : SendRequest(c)
    \/ \E c \in PushConns : BeginPush(c)
    \/ \E c \in PushConns : ModifyAndSave(c)
    \/ \E c \in PushConns : ScheduleAndReturn(c)
    \/ \E c \in PushConns : CloseRequest(c)
    \/ \E w \in PushClients : WsConnect(w)
    \/ \E w \in PushClients : WsSendState(w)
    \/ \E w \in PushClients : WsDisconnect(w)
    \/ StartBroadcast
    \/ \E w \in PushClients : \E i \in 1..Len(ws_tasks) : SendOk(i, w)
    \/ \E w \in PushClients : \E i \in 1..Len(ws_tasks) : SendFail(i, w)
    \/ \E i \in 1..Len(ws_tasks) : FinishBroadcast(i)

SpecPush == InitPush /\ [][NextPush]_vars

\* a handler that has saved goes on to its broadcast, and the loop runs
\* what is ready: a scheduled broadcast is started, a pending send is made
SpecPushFair ==
    /\ SpecPush
    /\ \A c \in PushConns : []<>(pc[c] # "saved")
    /\ WF_vars(StartBroadcast)
    /\ \A w \in PushClients : WF_vars(Send(w))
    /\ WF_vars(\E i \in 1..Len(ws_tasks) : FinishBroadcast(i))

(***************************************************************************)
(* The save of the HTTP thread against the load of the WebSocket thread    *)
(***************************************************************************)
\* the HTTP connection of these runs
RaceConns == {"c1"}

\* save_notifications(data): open(NOTIFICATIONS_FILE, 'w') truncates the
\* file; until json.dump has written the document and the file is closed it
\* holds nothing that parses
OpenTruncate(c) ==
    /\ pc[c] = "loaded"
    /\ Mutating(request[c])
    /\ \E e \in (IF request[c]["op"] = "delete_notification" THEN {NoDocument}
                 ELSE new_entries(request[c], data[c])) :
           data' = [data EXCEPT ![c] = modified(request[c], e, data[c])]
    /\ file' = save_notifications(file, data'[c], "write_failed")
    /\ pc' = [pc EXCEPT ![c] = "writing"]
    /\ UNCHANGED <<now, evalVars, ws_clients, ws_pc, request, loaded, result, expected, undo>>
    /\ UNCHANGED <<faultVars, activeVars, pushVars>>

\* json.dump(data, f, indent=2) completes and the with block closes the file
FinishDump(c) ==
    /\ pc[c] = "writing"
    /\ file' = save_notifications(file, data[c], "written")
    /\ expected' = modified(request[c], return_value(request[c], data[c]), expected)
    /\ save_outcome' = "written"
    /\ pc' = [pc EXCEPT ![c] = "saved"]
    /\ UNCHANGED <<now, evalVars, ws_clients, ws_pc, request, loaded, data, result, undo>>
    /\ UNCHANGED <<load_outcome, activeVars, pushVars>>

\* ws_handler on the WebSocket thread: get_active_notifications() loads the
\* file as it is at that moment and the payload is sent to the new client;
\* an exception ends the handler, whose finally clause discards the client
WsSendCurrent(w) ==
    /\ ws_pc[w] = "connected"
    /\ IF IsError(get_active_notifications(load_notifications(file), now))
       THEN /\ ws_clients' = ws_clients \ {w}
            /\ ws_pc' = [ws_pc EXCEPT ![w] = "closed"]
            /\ UNCHANGED received
       ELSE /\ ws_pc' = [ws_pc EXCEPT ![w] = "open"]
            /\ received' = [received EXCEPT ![w] =
                               [message |-> broadcast_message, mutation |-> mutations]]
            /\ UNCHANGED ws_clients
    /\ UNCHANGED <<now, evalVars, file, pc, request, loaded, data, result, expected, undo>>
    /\ UNCHANGED <<faultVars, activeVars, ws_queue, ws_tasks, mutations>>

NextRace ==
    \/ \E c \in RaceConns : SendRequest(c)
    \/ \E c \in RaceConns : BeginRequest(c)
    \/ \E c \in RaceConns : OpenTruncate(c)
    \/ \E c \in RaceConns : FinishDump(c)
    \/ \E c \in RaceConns : ListActive(c)
    \/ \E c \in RaceConns : BroadcastAndReturn(c)
    \/ \E c \in RaceConns : CloseRequest(c)
    \/ \E w \in WsClients : WsConnect(w)
    \/ \E w \in WsClients : WsSendCurrent(w)
    \/ \E w \in WsClients : WsDisconnect(w)

SpecRace == Init /\ [][NextRace]_vars

(***************************************************************************)
(* The active list of the documents the add calls build                    *)
(***************************************************************************)
\* add calls are made while the document holds fewer entries than this
MaxStored == 4

\* the id the k-th add call of a run carries
ActiveIds == <<"n1", "n2", "n3", "n4", "n5", "n6">>

\* expires strings around the wall clock StoreNow (2024-04-29T07:00:00), and
\* one that is no timestamp ("2024-13-45")
ExpiresPast == <<2024, 4, 29, 6, 59, 0>>

ExpiresNow == <<2024, 4, 29, 7, 0, 0>>

ExpiresFuture == <<2024, 4, 29, 7, 1, 0>>

ExpiresTomorrow == <<2024, 4, 30, 7, 0, 0>>

ExpiresMalformed == <<2024, 13, 45>>

\* the bodies POST /api/notifications is given with the id id
ActiveNotificationBodies(id) ==
    {[id |-> id, priority |-> p] : p \in {"info", "urgent", "high"}}
        \cup {[id |-> id]}
        \cup {[id |-> id, expires |-> e] :
                  e \in {ExpiresPast, ExpiresNow, ExpiresFuture, ExpiresMalformed}}
        \cup {[id |-> id, expires |-> ExpiresTomorrow, expires_hours |-> 1]}

\* the bodies POST /api/notifications/recurring is given with the id id: the
\* Monday rule is in its window at StoreNow, day 31 is no day of April
ActiveRecurringBodies(id) ==
    {[id |-> id, priority |-> "urgent",
      rule |-> [weekday |-> 0, hour |-> 8, show_before_hours |-> 2]],
     [id |-> id, rule |-> [weekday |-> 0, hour |-> 8, show_before_hours |-> 2]],
     [id |-> id, rule |-> [day_of_month |-> 31]]}

Stored(doc) == Len(doc["notifications"]) + Len(doc["recurring"])

\* add_notification(notif_data) with no subscriber connected: load, build,
\* append, save; the broadcast returns at once
AddNotification ==
    /\ Stored(load_notifications(file)) < MaxStored
    /\ \E body \in ActiveNotificationBodies(ActiveIds[Stored(load_notifications(file)) + 1]) :
           /\ file' = append_notification(load_notifications(file),
                                          new_notification(body, body["id"], now))
           /\ notif_data' = body
    /\ listed' = NotEvaluated
    /\ listed_again' = NotEvaluated
    /\ UNCHANGED <<now, evalVars, ws_clients, ws_pc, pc, request, loaded, data, result,
                   expected, undo>>
    /\ UNCHANGED <<faultVars, pushVars>>

\* add_recurring(recur_data) with no subscriber connected
AddRecurring ==
    /\ Stored(load_notifications(file)) < MaxStored
    /\ \E body \in ActiveRecurringBodies(ActiveIds[Stored(load_notifications(file)) + 1]) :
           file' = append_recurring(load_notifications(file),
                                    new_recurring(body, body["id"]))
    /\ notif_data' = NoRequest
    /\ listed' = NotEvaluated
    /\ listed_again' = NotEvaluated
    /\ UNCHANGED <<now, evalVars, ws_clients, ws_pc, pc, request, loaded, data, result,
                   expected, undo>>
    /\ UNCHANGED <<faultVars, pushVars>>

\* GET /api/notifications: get_active_notifications()
GetActive ==
    /\ listed = NotEvaluated
    /\ listed' = get_active_notifications(load_notifications(file), now)
    /\ UNCHANGED <<now, evalVars, storeVars, faultVars, notif_data, listed_again, pushVars>>

NextActive == AddNotification \/ AddRecurring \/ GetActive

SpecActive == Init /\ [][NextActive]_vars

(***************************************************************************)
(* Evaluating twice at one instant                                         *)
(***************************************************************************)
\* add calls of these runs are made while the document holds fewer entries
MaxTwice == 3

\* the add calls, made while no subscriber is connected
StoreNotification ==
    /\ Stored(load_notifications(file)) < MaxTwice
    /\ ws_clients = {}
    /\ AddNotification

StoreRecurring ==
    /\ Stored(load_notifications(file)) < MaxTwice
    /\ ws_clients = {}
    /\ AddRecurring

\* get_active_notifications() once more, at the same instant
GetActiveAgain ==
    /\ listed # NotEvaluated
    /\ listed_again = NotEvaluated
    /\ listed_again' = get_active_notifications(load_notifications(file), now)
    /\ UNCHANGED <<now, evalVars, storeVars, faultVars, notif_data, listed, pushVars>>

\* check_recurring_trigger(recur, now) for the i-th stored rule, as the loop
\* of get_active_notifications calls it
CheckTrigger(i) ==
    /\ i \in 1..Len(load_notifications(file)["recurring"])
    /\ triggered' = check_recurring_trigger(load_notifications(file)["recurring"][i], now)
    /\ recur' = recur_after_check(load_notifications(file)["recurring"][i], now)
    /\ triggered_again' = NotEvaluated
    /\ UNCHANGED <<now, target, idle, storeVars, faultVars, activeVars, pushVars>>

\* check_recurring_trigger(recur, now) once more on the same entry
CheckTriggerAgain ==
    /\ triggered # NotEvaluated
    /\ triggered_again = NotEvaluated
    /\ triggered_again' = check_recurring_trigger(recur, now)
    /\ recur' = recur_after_check(recur, now)
    /\ UNCHANGED <<now, triggered, target, idle, storeVars, faultVars, activeVars, pushVars>>

NextTwice ==
    \/ StoreNotification
    \/ StoreRecurring
    \/ GetActive
    \/ GetActiveAgain
    \/ \E i \in 1..MaxTwice : CheckTrigger(i)
    \/ CheckTriggerAgain
    \/ \E w \in WsClients : WsConnect(w)
    \/ \E w \in WsClients : WsSendState(w)
    \/ \E w \in WsClients : WsDisconnect(w)

SpecTwice == Init /\ [][NextTwice]_vars

(***************************************************************************)
(* The store on a file system that can fail a save                         *)
(***************************************************************************)
\* a failed save has lost a change: the file no longer holds what the calls
\* made of the document
Lost == load_notifications(file) # expected

\* save_notifications(data) fails in a handler
FailedSave(c) ==
    /\ ~Lost
    /\ \E outcome \in SaveOutcomes \ {"written"} : Modify(c, outcome)

\* the steps that leave the file alone: a request in progress goes on after
\* its save, and GET /api/notifications requests are served
ReadOnly(c) ==
    \/ SendRequest(c)
    \/ BeginRequest(c) /\ request'[c]["op"] = "list"
    \/ ListActive(c)
    \/ BroadcastAndReturn(c)
    \/ CloseRequest(c)

\* the server's runs up to the first change a failed save loses, and the
\* reads that follow it
NextFault ==
    \/ ~Lost /\ Next
    \/ \E c \in Conns : FailedSave(c)
    \/ Lost /\ \E c \in Conns : ReadOnly(c)

SpecFault == Init /\ [][NextFault]_vars

(***************************************************************************)
(* Properties of the trigger engine                                        *)
(***************************************************************************)
Evaluated == triggered # NotEvaluated

TheRule == recur["rule"]

\* now's date moved by k days, at hour:00:00
DateAt(t, k, hour) ==
    LET d == fromordinal(toordinal(t) + k)
    IN  [year |-> d.year, month |-> d.month, day |-> d.day, hour |-> hour, minute |-> 0]

\* whether the rule names the calendar day with ordinal n
OccursOn(rule, n) ==
    IF rule_kind(rule) = "weekly" THEN (n + 6) % 7 = rule["weekday"]
    ELSE fromordinal(n).day = rule["day_of_month"]

\* the rule's earliest occurrence strictly after t, in minutes, found by
\* walking the calendar day by day
NextOccurrence(rule, t) ==
    LET at(k) == ((toordinal(t) + k) * 24 + target_hour(rule)) * 60
        hit(k) == OccursOn(rule, toordinal(t) + k) /\ at(k) > Minutes(t)
        k0 == CHOOSE k \in 0..62 : hit(k) /\ \A j \in 0..(k - 1) : ~hit(j)
    IN  at(k0)

InNextWindow(rule, t) ==
    /\ NextOccurrence(rule, t) - show_before(rule) * 60 <= Minutes(t)
    /\ Minutes(t) < NextOccurrence(rule, t)

MondayRule == [weekday |-> 0, hour |-> 8, show_before_hours |-> 2]

\* C1: a weekly rule evaluated on its own weekday at or after its hour gets
\* next week's occurrence as target: now's date plus 7 days at hour:00:00,
\* never today's.
C1_PassedTodaySelectsNextWeek ==
    (/\ Evaluated
     /\ rule_kind(TheRule) = "weekly"
     /\ weekday(now) = TheRule["weekday"]
     /\ now.hour >= target_hour(TheRule))
        => /\ target = DateAt(now, 7, target_hour(TheRule))
           /\ target # DateAt(now, 0, target_hour(TheRule))

C1_Witness ==
    /\ Evaluated
    /\ rule_kind(TheRule) = "weekly"
    /\ weekday(now) = TheRule["weekday"]
    /\ now.hour = target_hour(TheRule)
    /\ now.minute = 30
    /\ now.month = 12 /\ now.day = 30
    /\ target = [year |-> now.year + 1, month |-> 1, day |-> 6,
                 hour |-> target_hour(TheRule), minute |-> 0]

\* C2: every rule, at every instant, yields a triggered reminder exactly when
\* now lies in [target_time - show_before_hours, target_time) of the rule's
\* next upcoming occurrence, and the reminder carries that occurrence; the
\* Monday 08:00 rule with 2 hours of lead is active at Monday 07:00 with
\* target Monday 08:00 of that day, and inactive at Monday 08:00.
C2_ActiveIffInNextWindow ==
    Evaluated =>
        /\ IsTriggered(triggered) <=> InNextWindow(TheRule, now)
        /\ IsTriggered(triggered) =>
               triggered["target_time"] = isoformat(FromMinutes(NextOccurrence(TheRule, now)))
        /\ (TheRule = MondayRule /\ weekday(now) = 0 /\ now.hour = 7 /\ now.minute = 0)
               => /\ IsTriggered(triggered)
                  /\ triggered["target_time"] = isoformat(DateAt(now, 0, 8))
        /\ (TheRule = MondayRule /\ weekday(now) = 0 /\ now.hour = 8 /\ now.minute = 0)
               => triggered = None

\* C3: the Monday 08:00 rule with 2 hours of lead, on a clock started on a
\* Monday 00:00: in every week it is active from Monday 06:00 to Monday 08:00
\* and every evaluation from Monday 08:00 on returns nothing until the next
\* Monday 06:00, where it is active again.
C3_InactiveUntilNextMondayWindow ==
    (Evaluated /\ TheRule = MondayRule) =>
        LET e == Elapsed(now) % 336
        IN  IF e \in 12..15 THEN IsTriggered(triggered) ELSE triggered = None

C3_Witness ==
    /\ TheRule = MondayRule
    /\ Elapsed(now) = 336 + 12
    /\ IsTriggered(triggered)
    /\ idle = 0

\* C4: a monthly rule for the 1st of the month, evaluated in December once
\* December's occurrence has passed, gets the 1st of January of the next
\* year at hour:00:00 as target.
C4_DecemberRollsToJanuary ==
    (/\ Evaluated
     /\ rule_kind(TheRule) = "monthly"
     /\ TheRule["day_of_month"] = 1
     /\ now.month = 12
     /\ (now.day > 1 \/ now.hour >= target_hour(TheRule)))
        => target = [year |-> now.year + 1, month |-> 1, day |-> 1,
                     hour |-> target_hour(TheRule), minute |-> 0]

C4_Witness ==
    /\ Evaluated
    /\ rule_kind(TheRule) = "monthly"
    /\ TheRule["day_of_month"] = 1
    /\ now.month = 12 /\ now.day = 31 /\ now.hour = 23 /\ now.minute = 30
    /\ target = [year |-> 2024, month |-> 1, day |-> 1,
                 hour |-> target_hour(TheRule), minute |-> 0]

\* C5: a monthly rule's target is day_of_month of the following month (the
\* next year's January after December) at hour:00:00 when now.day >
\* day_of_month, or now.day = day_of_month and now.hour >= hour, and
\* day_of_month of the current month otherwise: the earliest monthly
\* occurrence strictly after now.
C5_MonthlyTargetIsNextOccurrence ==
    (Evaluated /\ rule_kind(TheRule) = "monthly") =>
        LET d == TheRule["day_of_month"]
            h == target_hour(TheRule)
            passed == now.day > d \/ (now.day = d /\ now.hour >= h)
            y == IF passed /\ now.month = 12 THEN now.year + 1 ELSE now.year
            m == IF ~passed THEN now.month ELSE IF now.month = 12 THEN 1 ELSE now.month + 1
        IN  /\ target = [year |-> y, month |-> m, day |-> d, hour |-> h, minute |-> 0]
            /\ Minutes(target) = NextOccurrence(TheRule, now)

\* C6: a recurring rule fires in every cycle: a weekly rule is in its show
\* window at some instant of every 7 days, a monthly rule at some instant of
\* every calendar month, whatever its show_before_hours >= 0 (0 by default).
C6_FiresEveryCycle ==
    /\ rule_kind(TheRule) = "weekly" => idle < 336
    /\ (/\ rule_kind(TheRule) = "monthly"
        /\ now.day = DaysInMonth(now.year, now.month) /\ now.hour = 23 /\ now.minute = 30
        /\ Elapsed(now) >= DaysInMonth(now.year, now.month) * 48 - 1)
           => idle < DaysInMonth(now.year, now.month) * 48

(***************************************************************************)
(* Properties of the notification store                                    *)
(***************************************************************************)
\* seq without the entries whose id is id, the others in their order
RECURSIVE Without(_, _)
Without(seq, id) ==
    IF seq = <<>> THEN <<>>
    ELSE IF Head(seq)["id"] = id THEN Without(Tail(seq), id)
    ELSE <<Head(seq)>> \o Without(Tail(seq), id)

Deleting(c) == request[c]["op"] = "delete_notification"

\* C7: no update is lost, however the mutating calls of the connections
\* overlap: the persisted document is the result of applying the effect of
\* every saved call, one after another.
C7_NoLostUpdate == load_notifications(file) = expected

C7_Witness ==
    \E c1, c2 \in Conns :
        /\ pc[c1] = "saved" /\ pc[c2] = "waiting"
        /\ request[c1]["op"] = "add_recurring"
        /\ Len(file["notifications"]) = 2
        /\ Len(file["recurring"]) = 2
        /\ file = expected

\* C8: add_notification(x) followed by delete_notification of the id it
\* returned leaves the notifications collection as it was before the add.
C8_AddThenDeleteRestores ==
    undo["stage"] = "deleted" => load_notifications(file)["notifications"] = undo["pre"]

\* C9: delete_notification(id) leaves each collection as it was with exactly
\* the entries of that id removed and the others in their order; a match in
\* notifications does not keep recurring from being filtered.
C9_DeleteFiltersBothCollections ==
    \A c \in Conns :
        (pc[c] \in {"saved", "done"} /\ Deleting(c)) =>
            /\ data[c]["notifications"] = Without(loaded[c]["notifications"], request[c]["id"])
            /\ data[c]["recurring"] = Without(loaded[c]["recurring"], request[c]["id"])
            /\ load_notifications(file) = data[c]

C9_Witness ==
    \E c \in Conns :
        /\ pc[c] = "saved" /\ Deleting(c)
        /\ Len(loaded[c]["notifications"]) = 2 /\ Len(data[c]["notifications"]) = 1
        /\ Len(loaded[c]["recurring"]) = 2 /\ Len(data[c]["recurring"]) = 1
        /\ file = data[c]

\* C10: delete_notification(id) for an id in neither collection is no error:
\* it returns {deleted: id} and leaves both collections as they were, each
\* time it is called.
C10_DeleteUnknownIdReturns ==
    \A c \in Conns :
        (/\ pc[c] = "done" /\ Deleting(c)
         /\ request[c]["id"] \notin ids_of(loaded[c]))
            => /\ result[c] = [deleted |-> request[c]["id"]]
               /\ data[c] = loaded[c]
               /\ load_notifications(file) = loaded[c]

\* C11: an add or delete call completes whatever happens in the broadcast
\* step, with or without subscribers: once the handler is through, the
\* change is persisted and the caller gets the handler's result, never an
\* exception of the broadcast.
C11_MutationCompletes ==
    \A c \in Conns :
        (pc[c] = "done" /\ Mutating(request[c]))
            => /\ load_notifications(file) = data[c]
               /\ result[c] = return_value(request[c], data[c])

\* C19: on a missing or corrupt file load_notifications gives the empty
\* two-collection document, and no operation built on that load (list,
\* add_notification, add_recurring, delete_notification) ends in an error
\* for its caller.
C19_LoadFailureNeverSurfaces ==
    \A c \in Conns :
        load_outcome[c] \in {"missing", "corrupt"}
            => /\ loaded[c] = EmptyDocument
               /\ pc[c] = "done" => ~IsError(result[c])

\* C20: after a save that failed during an add or delete, what the next
\* operations load still reflects the attempted change and still holds the
\* entries stored before it.
C20_FailedSaveKeepsChange ==
    save_outcome \in SaveOutcomes \ {"written"}
        => load_notifications(file) = expected

(***************************************************************************)
(* Properties of the active list                                           *)
(***************************************************************************)
\* get_active_notifications() was called and returned a list
Listed == listed # NotEvaluated /\ ~IsError(listed)

StoredNotifications == load_notifications(file)["notifications"]

StoredRecurring == load_notifications(file)["recurring"]

\* urgent(0) < normal(1) < info(2); anything else, or no priority, is normal
Rank(x) ==
    IF "priority" \notin DOMAIN x THEN 1
    ELSE IF x["priority"] = "urgent" THEN 0
    ELSE IF x["priority"] = "info" THEN 2
    ELSE 1

\* the instant a timestamp string denotes, in minutes
TimeOf(s) ==
    ((toordinal([year |-> s[1], month |-> s[2], day |-> s[3]]) * 24 + s[4]) * 60) + s[5]

Unparsable(n) == "expires" \in DOMAIN n /\ Len(n["expires"]) # 6

NotExpired(n) == "expires" \notin DOMAIN n \/ TimeOf(n["expires"]) >= Minutes(now)

InList(x, list) == \E j \in 1..Len(list) : list[j] = x

PrioritiesOf(seq) == [i \in 1..Len(seq) |-> seq[i]["priority"]]

\* C14: the returned list is ordered by rank urgent(0) < normal(1) < info(2),
\* an unknown or missing priority ranking as normal, and within one rank the
\* entries keep their order: the unexpired notifications in stored order,
\* then the triggered reminders in rule order. [A(info), B(urgent),
\* C(urgent), D(normal)] comes out as [B, C, D, A].
C14_SortedByRankStable ==
    Listed =>
        LET out == listed["value"]
            inp == SelectSeq(StoredNotifications, NotExpired)
                       \o triggered_of(StoredRecurring, now)
        IN  /\ \A i, j \in 1..Len(out) : i < j => Rank(out[i]) <= Rank(out[j])
            /\ \A k \in 0..2 :
                   SelectSeq(out, LAMBDA x : Rank(x) = k)
                       = SelectSeq(inp, LAMBDA x : Rank(x) = k)
            /\ PrioritiesOf(inp) = <<"info", "urgent", "urgent", "normal">>
                   => out = <<inp[2], inp[3], inp[4], inp[1]>>

C14_Witness ==
    /\ Listed
    /\ PrioritiesOf(StoredNotifications) = <<"info", "urgent", "urgent", "normal">>
    /\ [i \in 1..4 |-> listed["value"][i]["id"]] = <<"n2", "n3", "n4", "n1">>

\* C15: add_notification given both an explicit expires timestamp and an
\* expires_hours duration stores the explicit timestamp as expires.
C15_ExplicitExpiresWins ==
    ("expires" \in DOMAIN notif_data /\ "expires_hours" \in DOMAIN notif_data)
        => StoredNotifications[Len(StoredNotifications)]["expires"] = notif_data["expires"]

\* C16: a stored one-time notification is in the returned list exactly when
\* it has no expires or its expires >= now; the one whose expires is exactly
\* now is in the list.
C16_ActiveIffNotExpired ==
    Listed =>
        \A i \in 1..Len(StoredNotifications) :
            LET n == StoredNotifications[i]
            IN  /\ InList(n, listed["value"]) <=> NotExpired(n)
                /\ ("expires" \in DOMAIN n /\ n["expires"] = isoformat(now))
                       => InList(n, listed["value"])

C16_Witness ==
    /\ Listed
    /\ \E i, j, k \in 1..Len(StoredNotifications) :
           /\ "expires" \notin DOMAIN StoredNotifications[i]
           /\ InList(StoredNotifications[i], listed["value"])
           /\ "expires" \in DOMAIN StoredNotifications[j]
           /\ StoredNotifications[j]["expires"] = isoformat(now)
           /\ InList(StoredNotifications[j], listed["value"])
           /\ "expires" \in DOMAIN StoredNotifications[k]
           /\ TimeOf(StoredNotifications[k]["expires"]) = Minutes(now) - 1
           /\ ~InList(StoredNotifications[k], listed["value"])

\* C17 as stated: a one-time notification is absent from the returned list
\* whenever its expires <= now, the instant expires = now included.
C17_AbsentAtOrAfterExpires ==
    Listed =>
        \A i \in 1..Len(StoredNotifications) :
            LET n == StoredNotifications[i]
            IN  ("expires" \in DOMAIN n /\ TimeOf(n["expires"]) <= Minutes(now))
                    => ~InList(n, listed["value"])

\* C17, amended: a one-time notification is absent from the returned list
\* whenever its expires < now; at the instant expires = now it is still in
\* the list.
C17_AbsentAfterExpires ==
    Listed =>
        \A i \in 1..Len(StoredNotifications) :
            LET n == StoredNotifications[i]
            IN  /\ ("expires" \in DOMAIN n /\ TimeOf(n["expires"]) < Minutes(now))
                       => ~InList(n, listed["value"])
                /\ ("expires" \in DOMAIN n /\ TimeOf(n["expires"]) = Minutes(now))
                       => InList(n, listed["value"])

C17_Witness ==
    /\ Listed
    /\ Len(StoredNotifications) = 2
    /\ StoredNotifications[1]["id"] = "n1"
    /\ "expires" \in DOMAIN StoredNotifications[1]
    /\ TimeOf(StoredNotifications[1]["expires"]) < Minutes(now)
    /\ "expires" \in DOMAIN StoredNotifications[2]
    /\ TimeOf(StoredNotifications[2]["expires"]) = Minutes(now)
    /\ listed["value"] = <<StoredNotifications[2]>>

\* C18: with a stored notification whose expires is no parsable timestamp,
\* get_active_notifications() still returns a list, and the list holds the
\* other unexpired notifications and the triggered reminders.
C18_UnparsableExpiresTolerated ==
    (/\ listed # NotEvaluated
     /\ \E i \in 1..Len(StoredNotifications) : Unparsable(StoredNotifications[i]))
        => /\ ~IsError(listed)
           /\ \A i \in 1..Len(StoredNotifications) :
                  LET n == StoredNotifications[i]
                  IN  (~Unparsable(n) /\ NotExpired(n)) => InList(n, listed["value"])
           /\ \A i \in 1..Len(StoredRecurring) :
                  LET r == check_recurring_trigger(StoredRecurring[i], now)
                  IN  IsTriggered(r) => InList(r, listed["value"])

(***************************************************************************)
(* Properties of the WebSocket broadcasts                                  *)
(***************************************************************************)
\* the payload for the document doc
PayloadOf(doc) ==
    [type |-> "notifications", data |-> get_active_notifications(doc, now)["value"]]

\* the message of mutation n was written to w's connection
Pushed(n, w) == received[w] # None /\ received[w]["mutation"] = n

\* the send of mutation n's message to w raised
SendFailed(n, w) ==
    \E i \in 1..Len(ws_tasks) : ws_tasks[i]["mutation"] = n /\ w \in ws_tasks[i]["failed"]

\* C12: within one broadcast, a failed send to one subscriber neither
\* prevents nor aborts the send to any other: every other subscriber the
\* broadcast was started for is still to be sent the message or was sent
\* it, and when the broadcast is through each of them was sent it.
C12_FailedSendSparesOthers ==
    \A i \in 1..Len(ws_tasks) :
        LET t == ws_tasks[i]
        IN  /\ t["clients"] \ t["failed"] = t["pending"] \cup t["sent"]
            /\ t["pending"] = {} => t["sent"] = t["clients"] \ t["failed"]
            /\ \A w \in t["sent"] : received[w] # None /\ received[w]["mutation"] >= t["mutation"]

C12_Witness ==
    \E i \in 1..Len(ws_tasks) :
        /\ ws_tasks[i]["clients"] = {"w1", "w2"}
        /\ ws_tasks[i]["failed"] = {"w1"}
        /\ ws_tasks[i]["sent"] = {"w2"}
        /\ ws_tasks[i]["pending"] = {}
        /\ received["w2"] = [message |-> ws_tasks[i]["message"],
                             mutation |-> ws_tasks[i]["mutation"]]

\* C13: after every mutating call, every subscriber connected at that time
\* is eventually sent a {type: notifications} payload whose data is the
\* active list of the document that call persisted (unless its connection
\* ends or its send fails first), and the payloads of successive mutations
\* reach a subscriber in mutation order.
C13_EveryMutationPushedInOrder ==
    /\ \A n \in 1..MaxMutations : \A w \in PushClients : \A c \in PushConns :
           (pc[c] = "saved" /\ mutations = n - 1 /\ w \in ws_clients)
               ~> (Pushed(n, w) \/ SendFailed(n, w) \/ ws_pc[w] = "closed")
    /\ [](\A c \in PushConns : \A k \in 1..Len(ws_queue) :
              (pc[c] = "done" /\ ws_queue[k]["mutation"] = mutations)
                  => /\ ~IsError(get_active_notifications(data[c], now))
                     /\ ws_queue[k]["message"] = PayloadOf(data[c]))
    /\ [][\A w \in PushClients :
              (received'[w] # received[w] /\ received[w] # None)
                  => received'[w]["mutation"] > received[w]["mutation"]]_vars

(***************************************************************************)
(* Properties of the collections                                           *)
(***************************************************************************)
\* no two entries of seq carry the same id
UniqueIds(seq) == \A i, j \in 1..Len(seq) : i # j => seq[i]["id"] # seq[j]["id"]

\* C21: ids are unique: whatever add_notification, add_recurring (with or
\* without an id in the body) and delete_notification calls were made, no
\* two entries of notifications share an id and no two of recurring do.
C21_IdsUnique ==
    /\ UniqueIds(StoredNotifications)
    /\ UniqueIds(StoredRecurring)

\* C24: add_notification and add_recurring append exactly one entry to
\* their own collection; every entry stored before is still there, unchanged
\* and in the same place, and the other collection is as it was.
C24_AddAppendsOneEntry ==
    \A c \in Conns :
        pc[c] \in {"saved", "done"} =>
            /\ request[c]["op"] = "add_notification" =>
                   /\ Len(data[c]["notifications"]) = Len(loaded[c]["notifications"]) + 1
                   /\ SubSeq(data[c]["notifications"], 1, Len(loaded[c]["notifications"]))
                          = loaded[c]["notifications"]
                   /\ data[c]["recurring"] = loaded[c]["recurring"]
                   /\ load_notifications(file) = data[c]
            /\ request[c]["op"] = "add_recurring" =>
                   /\ Len(data[c]["recurring"]) = Len(loaded[c]["recurring"]) + 1
                   /\ SubSeq(data[c]["recurring"], 1, Len(loaded[c]["recurring"]))
                          = loaded[c]["recurring"]
                   /\ data[c]["notifications"] = loaded[c]["notifications"]
                   /\ load_notifications(file) = data[c]

C24_Witness ==
    \E c \in Conns :
        /\ pc[c] = "saved"
        /\ request[c]["op"] = "add_notification"
        /\ Len(loaded[c]["notifications"]) = 1
        /\ Len(loaded[c]["recurring"]) = 2
        /\ file["notifications"] = Append(loaded[c]["notifications"],
                                          new_notification(request[c]["body"], "g1", now))
        /\ file["recurring"] = loaded[c]["recurring"]

(***************************************************************************)
(* Further properties of the trigger engine                                *)
(***************************************************************************)
\* the document whose only entry is the rule under evaluation
DocumentOf(rec) == [notifications |-> <<>>, recurring |-> <<rec>>]

\* C25: the evaluator is total on valid rules: for a monthly rule with
\* day_of_month in 1..31 and hour in 0..23, at every instant, including the
\* months that have no such day, check_recurring_trigger returns nothing or
\* a triggered reminder and never raises, and get_active_notifications on a
\* document storing the rule never raises.
C25_TotalOnValidRules ==
    (/\ Evaluated
     /\ rule_kind(TheRule) = "monthly"
     /\ TheRule["day_of_month"] \in 1..31
     /\ target_hour(TheRule) \in 0..23)
        => /\ ~IsError(triggered)
           /\ triggered = None \/ IsTriggered(triggered)
           /\ ~IsError(get_active_notifications(DocumentOf(recur), now))

\* C26: for a weekly rule, at every instant, the computed target is the
\* earliest instant strictly after now that falls on the rule's weekday at
\* hour:00:00, so now < target_time <= now + 7 days.
C26_WeeklyTargetIsNextOccurrence ==
    (Evaluated /\ rule_kind(TheRule) = "weekly") =>
        /\ ~IsError(target)
        /\ weekday(target) = TheRule["weekday"]
        /\ target.hour = target_hour(TheRule)
        /\ target.minute = 0
        /\ Minutes(target) = NextOccurrence(TheRule, now)
        /\ Minutes(now) < Minutes(target)
        /\ Minutes(target) <= Minutes(now) + 7 * 1440

C26_Witness ==
    /\ Evaluated
    /\ rule_kind(TheRule) = "weekly"
    /\ weekday(now) = TheRule["weekday"]
    /\ now.hour = target_hour(TheRule)
    /\ now.minute = 0
    /\ Minutes(target) = Minutes(now) + 7 * 1440

\* the rule without its day_of_month key
WeeklyPart(rule) == [k \in DOMAIN rule \ {"day_of_month"} |-> rule[k]]

Keyless(rule) == "weekday" \notin DOMAIN rule /\ "day_of_month" \notin DOMAIN rule

BothKeys(rule) == "weekday" \in DOMAIN rule /\ "day_of_month" \in DOMAIN rule

\* C28: a recurring entry whose rule has neither weekday nor day_of_month,
\* the empty rule stored when no rule was supplied included, is active at no
\* instant; a rule with both weekday and day_of_month is evaluated as the
\* weekly rule alone: it is active exactly in the window before the next
\* occurrence of its weekday, with that occurrence as target.
C28_KeysDecideEvaluation ==
    Evaluated =>
        /\ Keyless(TheRule) => triggered = None
        /\ BothKeys(TheRule) =>
               /\ ~IsError(triggered)
               /\ IsTriggered(triggered) <=> InNextWindow(WeeklyPart(TheRule), now)
               /\ Minutes(target) = NextOccurrence(WeeklyPart(TheRule), now)
               /\ IsTriggered(triggered) =>
                      triggered["target_time"]
                          = isoformat(FromMinutes(NextOccurrence(WeeklyPart(TheRule), now)))

C28_Witness ==
    /\ BothKeys(TheRule)
    /\ TheRule["day_of_month"] = 15
    /\ now = [year |-> 2024, month |-> 1, day |-> 8, hour |-> 7, minute |-> 0]
    /\ IsTriggered(triggered)
    /\ triggered["target_time"] = <<2024, 1, 8, 8, 0, 0>>

(***************************************************************************)
(* Properties of the stored rules                                          *)
(***************************************************************************)
\* the handler of connection c saves its delete_notification in this step
DeleteStep(c) == pc[c] = "loaded" /\ pc'[c] = "saved" /\ Deleting(c)

\* the stored rules but those a delete_notification of this step names
KeptRules ==
    IF \E c \in Conns : DeleteStep(c)
    THEN Without(StoredRecurring, request[CHOOSE c \in Conns : DeleteStep(c)]["id"])
    ELSE StoredRecurring

IsPrefix(s, t) == Len(s) <= Len(t) /\ SubSeq(t, 1, Len(s)) = s

\* C22: a recurring rule, once added, stays in the recurring collection
\* unchanged through list and evaluate operations, adds, deletes of other
\* ids and the passage of time, its window having fired or not: a step takes
\* a rule out only if it is delete_notification of the rule's own id.
C22_RuleStaysUntilDeleted ==
    [][IsPrefix(KeptRules, load_notifications(file')["recurring"])]_vars

C22_Witness ==
    \E c \in Conns :
        /\ pc[c] = "done" /\ Deleting(c)
        /\ request[c]["id"] = "g1"
        /\ Len(loaded[c]["recurring"]) = 2
        /\ StoredRecurring = <<stored_recurring("a", MondayRule)>>
        /\ Minutes(now) = Minutes(StoreNow) + 60
        /\ check_recurring_trigger(StoredRecurring[1], StoreNow) # None
        /\ check_recurring_trigger(StoredRecurring[1], now) = None

(***************************************************************************)
(* Properties of the payload sent on connect                               *)
(***************************************************************************)
\* ws_handler sends the new client w its payload in this step
ConnectPayloadStep(w) == ws_pc[w] = "connected" /\ ws_pc'[w] = "open"

\* the committed states of the store: the document the file holds, or, while
\* a handler is saving, the one it loaded and the one it is writing
CommittedDocuments ==
    IF \E c \in RaceConns : pc[c] = "writing"
    THEN {loaded[CHOOSE c \in RaceConns : pc[c] = "writing"],
          data[CHOOSE c \in RaceConns : pc[c] = "writing"]}
    ELSE {load_notifications(file)}

\* C27: the payload sent to a client on connect is the active list of a
\* committed state of the store, also when the connect falls into the save
\* of an add or delete: it is never built from a partly written document,
\* and it is not the empty list when the active list is non-empty both
\* before and after the mutation.
C27_ConnectPayloadIsCommitted ==
    [][\A w \in WsClients :
          ConnectPayloadStep(w) =>
              \E d \in CommittedDocuments :
                  /\ ~IsError(get_active_notifications(d, now))
                  /\ received'[w]["message"] = PayloadOf(d)]_vars

(***************************************************************************)
(* Properties of repeated evaluation                                       *)
(***************************************************************************)
\* a call of check_recurring_trigger returns in this step
TriggerCheckStep ==
    \/ triggered' # NotEvaluated /\ (triggered' # triggered \/ recur' # recur)
    \/ triggered_again' # NotEvaluated /\ triggered_again' # triggered_again

\* a call of get_active_notifications returns in this step
ListingStep ==
    \/ listed' # NotEvaluated /\ listed' # listed
    \/ listed_again' # NotEvaluated /\ listed_again' # listed_again

====
